---- MODULE Spec2Model ----
(***************************************************************************)
(* Model of src/server.py: the live broadcast pipeline.                    *)
(*                                                                         *)
(* Threads of the program and where each lives in the model:               *)
(*   main             main(), lines 179-223            mainPc, err         *)
(*   capture          the camera's recording thread,   cam, frames         *)
(*                    which calls BroadcastOutput.write once per frame     *)
(*   converter        the ffmpeg child process         conv, pending, opos *)
(*   pump             BroadcastThread.run              pumpPc, buf, snap   *)
(*   server           combined_server.serve_forever    srvPc, cur          *)
(*   manager          the websocket manager thread     websockets, sess    *)
(*                                                                         *)
(* The camera and the websocket server are libraries.  They are modelled   *)
(* by the protocol server.py is written against:                           *)
(*   - a recording calls output.write(frame) for every frame and, when the *)
(*     recording is stopped, stops producing frames and then calls         *)
(*     output.flush() (this is why BroadcastOutput has write and flush);   *)
(*   - manager.add(ws) calls ws.opened() and then inserts ws into          *)
(*     manager.websockets under the manager's lock;                        *)
(*   - manager.broadcast(msg) copies manager.websockets under the lock and *)
(*     then sends msg to every copied websocket that is not terminated,    *)
(*     swallowing any exception of a send;                                 *)
(*   - the manager thread removes and terminates a websocket whose socket  *)
(*     has failed or was closed by the peer;                               *)
(*   - server.shutdown() stops serve_forever and waits for it.             *)
(***************************************************************************)
EXTENDS Integers, Sequences, FiniteSets, TLC

\* ---------------------------------------------------------------- bounds
NumClients == 2
MaxFrames == 1
MaxInterrupts == 2
MaxFaults == 1
FrameOut == 40000
PipeCap == 65536

\* ------------------------------------------------------ program constants
WIDTH == 640
HEIGHT == 480
ReadMax == 32768

Clients == 1..NumClients

VARIABLES
  mainPc,        \* position of main()
  err,           \* an exception is propagating out of main's try blocks
  nInt,          \* KeyboardInterrupts delivered so far
  intAt,         \* position of main() when the first one was delivered
  done,          \* shutdown steps main has completed
  cam,           \* camera: "on", "rec", "stopped", "closed"
  frames,        \* frames the capture thread has produced
  stdinClosed,   \* converter.stdin.close() has run
  writeAfterClose, \* BroadcastOutput.write ran on a closed converter.stdin
  conv,          \* converter process: "none", "run", "eof", "exited"
  convRc,        \* exit status of the converter
  pending,       \* frames written to the converter and not yet encoded
  opos,          \* bytes the converter has emitted on stdout
  rpos,          \* bytes the pump has read from converter.stdout
  pumpPc,        \* position of BroadcastThread.run
  buf,           \* the pump's buf: bytes [lo, hi) of the converter output
  snap,          \* broadcast's copy of manager.websockets
  idx,           \* broadcast's position in snap
  stdoutClosed,  \* converter.stdout.close() has run
  handed,        \* the bufs the pump has passed to broadcast, in order
  srvPc,         \* position of serve_forever
  cur,           \* client whose request the server thread is handling
  shutdownReq,   \* serve_forever's shutdown request flag
  websockets,    \* manager.websockets, in insertion order
  sess,          \* per client: "new", "handshake", "open", "closed"
  sock,          \* per client socket: "ok", "stalled", "broken"
  recv,          \* per client: the messages its socket has received
  hdrPos,        \* per client: broadcast position when its header was sent
  regPos,        \* per client: broadcast position when it was registered
  fails,         \* per client: delivery attempts that raised
  closes,        \* per client: times the session was closed by the server
  hdr,           \* per client: the bytes opened() has sent to it
  dims,          \* the configured width and height
  req,           \* the request the server thread has accepted, if any
  resp           \* the last request answered and its answer

mainVars == <<mainPc, err, nInt, intAt, done>>
camVars  == <<cam, frames, writeAfterClose>>
convVars == <<stdinClosed, conv, convRc, pending, opos>>
pumpVars == <<rpos, pumpPc, buf, snap, idx, stdoutClosed, handed>>
srvVars  == <<srvPc, cur, shutdownReq>>
sessVars == <<websockets, sess, sock, recv, hdrPos, regPos, fails, closes, hdr>>
reqVars  == <<dims, req, resp>>
vars == <<mainVars, camVars, convVars, pumpVars, srvVars, sessVars, reqVars>>

\* --------------------------------------------------------------- helpers
Min(a, b) == IF a < b THEN a ELSE b

Range(s) == {s[i] : i \in 1..Len(s)}

\* s without the element x
Remove(s, x) == SelectSeq(s, LAMBDA y : y # x)

\* JSMPEG_MAGIC, b'jsmp'
JSMPEG_MAGIC == <<106, 115, 109, 112>>

\* a pack that writes the least significant byte first
PackHLittle(n) == <<n % 256, (n \div 256) % 256>>

\* Struct('>H').pack(n): two bytes, most significant first
PackH(n) == <<(n \div 256) % 256, n % 256>>

\* JSMPEG_HEADER.pack(magic, w, h) with JSMPEG_HEADER = Struct('>4sHH')
Pack(magic, w, h) == magic \o PackH(w) \o PackH(h)

\* the binary message opened() sends
HeaderMsg == [kind |-> "header", lo |-> 0, hi |-> Len(Pack(JSMPEG_MAGIC, WIDTH, HEIGHT))]

\* a broadcast that loses the last byte of buf
ChunkMsgTruncated(b) == [kind |-> "chunk", lo |-> b.lo, hi |-> b.hi - 1]

\* the binary message broadcast sends for a buf: the bytes of buf, as they are
ChunkMsg(b) == [kind |-> "chunk", lo |-> b.lo, hi |-> b.hi]

NoBuf == [lo |-> 0, hi |-> 0]

\* no request is being handled; no request has been answered
NoReq == [state |-> "none", upgrade |-> <<>>, path |-> ""]
NoResp == [handler |-> "none", status |-> 0, upgrade |-> <<>>, path |-> ""]

\* hi end of the last chunk whose broadcast has begun
BroadcastPos == IF pumpPc = "test" THEN buf.lo ELSE rpos

\* --------------------------------------------------- main(), lines 179-223
OuterBody    == {"mk_server", "spawn", "start_rec", "enter_try"}
InnerTry     == {"start_srv", "start_pump", "sleep"}
InnerFinally == {"stop_rec", "flush_close", "flush_wait", "join_pump",
                 "shutdown", "shutdown_wait", "join_srv"}
OuterFinally == {"cam_stop", "cam_close"}

\* where control goes when an exception is raised at pc
Handler(pc) == IF pc \in InnerTry THEN "stop_rec"
               ELSE IF pc \in OuterBody \cup InnerFinally THEN "cam_stop"
               ELSE "done"

Raise == /\ mainPc' = Handler(mainPc)
         /\ err' = TRUE

Init ==
  /\ mainPc = "mk_server" /\ err = FALSE /\ nInt = 0 /\ intAt = "none" /\ done = {}
  /\ cam = "on" /\ frames = 0 /\ writeAfterClose = FALSE
  /\ stdinClosed = FALSE /\ conv = "none" /\ convRc = 0 /\ pending = 0 /\ opos = 0
  /\ rpos = 0 /\ pumpPc = "notstarted" /\ buf = NoBuf /\ snap = <<>> /\ idx = 1
  /\ stdoutClosed = FALSE /\ handed = <<>>
  /\ srvPc = "notstarted" /\ cur = 0 /\ shutdownReq = FALSE
  /\ websockets = <<>>
  /\ sess = [c \in Clients |-> "new"]
  /\ sock = [c \in Clients |-> "ok"]
  /\ recv = [c \in Clients |-> <<>>]
  /\ hdrPos = [c \in Clients |-> 0]
  /\ regPos = [c \in Clients |-> 0]
  /\ fails = [c \in Clients |-> 0]
  /\ closes = [c \in Clients |-> 0]
  /\ hdr = [c \in Clients |-> <<>>]
  /\ dims = [w |-> WIDTH, h |-> HEIGHT]
  /\ req = NoReq
  /\ resp = NoResp

\* a main that starts the server thread as soon as the server exists
MainMakeServerServing ==
  /\ mainPc = "mk_server"
  /\ mainPc' = "spawn"
  /\ srvPc' = "idle"
  /\ UNCHANGED <<reqVars, err, nInt, intAt, done, camVars, convVars, pumpVars, cur,
                 shutdownReq, sessVars>>

\* lines 181-194: the websocket application, the server and its manager
MainMakeServer ==
  /\ mainPc = "mk_server"
  /\ \/ mainPc' = "spawn" /\ err' = err
     \/ Raise
  /\ UNCHANGED <<reqVars, nInt, intAt, done, camVars, convVars, pumpVars, srvVars, sessVars>>

\* lines 197-198: BroadcastOutput(camera) spawns the converter
MainSpawn ==
  /\ mainPc = "spawn"
  /\ \/ mainPc' = "start_rec" /\ err' = err /\ conv' = "run"
     \/ Raise /\ conv' = conv
  /\ UNCHANGED <<reqVars, nInt, intAt, done, camVars, stdinClosed, convRc, pending, opos,
                 pumpVars, srvVars, sessVars>>

\* line 200: camera.start_recording(output)
MainStartRecording ==
  /\ mainPc = "start_rec"
  /\ \/ mainPc' = "enter_try" /\ err' = err /\ cam' = "rec"
     \/ Raise /\ cam' = cam
  /\ UNCHANGED <<reqVars, nInt, intAt, done, frames, writeAfterClose, convVars, pumpVars,
                 srvVars, sessVars>>

\* line 202: control enters the inner try
MainEnterTry ==
  /\ mainPc = "enter_try"
  /\ mainPc' = "start_srv"
  /\ UNCHANGED <<reqVars, err, nInt, intAt, done, camVars, convVars, pumpVars, srvVars, sessVars>>

\* line 204: server_thread.start()
MainStartServer ==
  /\ mainPc = "start_srv"
  /\ \/ mainPc' = "start_pump" /\ err' = err /\ srvPc' = "idle"
     \/ Raise /\ srvPc' = srvPc
  /\ UNCHANGED <<reqVars, nInt, intAt, done, camVars, convVars, pumpVars, cur, shutdownReq, sessVars>>

\* line 206: broadcast_thread.start()
MainStartPump ==
  /\ mainPc = "start_pump"
  /\ \/ mainPc' = "sleep" /\ err' = err /\ pumpPc' = "read"
     \/ Raise /\ pumpPc' = pumpPc
  /\ UNCHANGED <<reqVars, nInt, intAt, done, camVars, convVars, rpos, buf, snap, idx,
                 stdoutClosed, handed, srvVars, sessVars>>

\* lines 208-209: while True: sleep(1)
MainSleep ==
  /\ mainPc = "sleep"
  /\ UNCHANGED vars

\* a stop_recording that flushes the output while frames still arrive
StoppedCamStillRecording(c) == c

\* the camera after stop_recording has stopped the capture thread
StoppedCam(c) == IF c = "rec" THEN "on" ELSE c

\* line 214, first half: stop_recording stops the capture thread
MainStopRecording ==
  /\ mainPc = "stop_rec"
  /\ cam' = StoppedCam(cam)
  /\ done' = done \cup {"stop_source"}
  /\ mainPc' = "flush_close"
  /\ UNCHANGED <<reqVars, err, nInt, intAt, frames, writeAfterClose, convVars, pumpVars,
                 srvVars, sessVars>>

\* line 214, second half: stop_recording calls output.flush(); line 130.
\* close() first flushes what the writes have left in the buffer of
\* converter.stdin: when the converter is gone already that flush may raise
\* (broken pipe); the stream is closed all the same.
FlushClose ==
  /\ mainPc = "flush_close"
  /\ stdinClosed' = TRUE
  /\ done' = done \cup {"close_input"}
  /\ \/ mainPc' = "flush_wait" /\ err' = err
     \/ /\ conv \in {"eof", "exited"}
        /\ ~stdinClosed
        /\ frames > 0
        /\ Raise
  /\ UNCHANGED <<reqVars, nInt, intAt, camVars, conv, convRc, pending, opos, pumpVars,
                 srvVars, sessVars>>

\* line 131: self.converter.wait()
FlushWait ==
  /\ mainPc = "flush_wait"
  /\ conv = "exited"
  /\ mainPc' = "join_pump"
  /\ UNCHANGED <<reqVars, err, nInt, intAt, done, camVars, convVars, pumpVars, srvVars, sessVars>>

\* line 216: broadcast_thread.join(); a thread that was never started
\* cannot be joined (RuntimeError)
MainJoinPump ==
  /\ mainPc = "join_pump"
  /\ \/ /\ pumpPc = "notstarted"
        /\ Raise
        /\ done' = done
     \/ /\ pumpPc = "done"
        /\ mainPc' = "shutdown" /\ err' = err
        /\ done' = done \cup {"pump_wait"}
  /\ UNCHANGED <<reqVars, nInt, intAt, camVars, convVars, pumpVars, srvVars, sessVars>>

\* line 218: combined_server.shutdown() sets the shutdown request ...
MainShutdown ==
  /\ mainPc = "shutdown"
  /\ shutdownReq' = TRUE
  /\ mainPc' = "shutdown_wait"
  /\ UNCHANGED <<reqVars, err, nInt, intAt, done, camVars, convVars, pumpVars, srvPc, cur, sessVars>>

\* ... and waits until serve_forever has returned
MainShutdownWait ==
  /\ mainPc = "shutdown_wait"
  /\ srvPc = "stopped"
  /\ mainPc' = "join_srv"
  /\ done' = done \cup {"hub_shutdown"}
  /\ UNCHANGED <<reqVars, err, nInt, intAt, camVars, convVars, pumpVars, srvVars, sessVars>>

\* line 220: server_thread.join()
MainJoinServer ==
  /\ mainPc = "join_srv"
  /\ srvPc = "stopped"
  /\ mainPc' = "cam_stop"
  /\ UNCHANGED <<reqVars, err, nInt, intAt, done, camVars, convVars, pumpVars, srvVars, sessVars>>

\* line 222: camera.stop()
MainCameraStop ==
  /\ mainPc = "cam_stop"
  /\ cam' = "stopped"
  /\ mainPc' = "cam_close"
  /\ UNCHANGED <<reqVars, err, nInt, intAt, done, frames, writeAfterClose, convVars, pumpVars,
                 srvVars, sessVars>>

\* line 223: camera.close()
MainCameraClose ==
  /\ mainPc = "cam_close"
  /\ cam' = "closed"
  /\ done' = done \cup {"release"}
  /\ mainPc' = "done"
  /\ UNCHANGED <<reqVars, err, nInt, intAt, frames, writeAfterClose, convVars, pumpVars,
                 srvVars, sessVars>>

\* lines 202-223: a KeyboardInterrupt delivered to the main thread.  Inside
\* the inner try it is caught (line 210); anywhere else it propagates.
Interrupt ==
  /\ mainPc # "done"
  /\ nInt < MaxInterrupts
  /\ nInt' = nInt + 1
  /\ intAt' = IF nInt = 0 THEN mainPc ELSE intAt
  /\ mainPc' = Handler(mainPc)
  /\ err' = IF mainPc \in InnerTry THEN err ELSE TRUE
  /\ UNCHANGED <<reqVars, done, camVars, convVars, pumpVars, srvVars, sessVars>>

Main ==
  \/ MainMakeServer \/ MainSpawn \/ MainStartRecording \/ MainEnterTry
  \/ MainStartServer \/ MainStartPump \/ MainSleep
  \/ MainStopRecording \/ FlushClose \/ FlushWait \/ MainJoinPump
  \/ MainShutdown \/ MainShutdownWait \/ MainJoinServer
  \/ MainCameraStop \/ MainCameraClose


\* ------------------------------------------------ capture thread, line 126
\* BroadcastOutput.write(b): self.converter.stdin.write(b).  A write on a
\* closed stdin raises; a write to a converter that has exited is lost.
Write ==
  /\ cam = "rec"
  /\ frames < MaxFrames
  /\ frames' = frames + 1
  /\ writeAfterClose' = (writeAfterClose \/ stdinClosed)
  /\ pending' = IF ~stdinClosed /\ conv = "run" THEN pending + 1 ELSE pending
  /\ UNCHANGED <<reqVars, mainVars, cam, stdinClosed, conv, convRc, opos, pumpVars,
                 srvVars, sessVars>>

\* ----------------------------------------- converter process, lines 111-123
\* ffmpeg encodes a frame it has read and writes the result to its stdout
\* pipe, which holds at most PipeCap unread bytes
Encode ==
  /\ conv = "run"
  /\ pending > 0
  /\ (opos + FrameOut) - rpos <= PipeCap
  /\ ~stdoutClosed
  /\ pending' = pending - 1
  /\ opos' = opos + FrameOut
  /\ UNCHANGED <<reqVars, mainVars, camVars, stdinClosed, conv, convRc, pumpVars,
                 srvVars, sessVars>>

\* ffmpeg sees the end of its input, has encoded everything and closes stdout
ConverterFinish ==
  /\ conv = "run"
  /\ stdinClosed
  /\ pending = 0
  /\ conv' = "eof"
  /\ convRc' = 0
  /\ UNCHANGED <<reqVars, mainVars, camVars, stdinClosed, pending, opos, pumpVars,
                 srvVars, sessVars>>

\* ffmpeg dies on its own
ConverterCrash ==
  /\ conv = "run"
  /\ conv' = "eof"
  /\ convRc' = 1
  /\ pending' = 0
  /\ UNCHANGED <<reqVars, mainVars, camVars, stdinClosed, opos, pumpVars, srvVars, sessVars>>

\* the process is gone: poll() and wait() now return its status
ConverterExit ==
  /\ conv = "eof"
  /\ conv' = "exited"
  /\ UNCHANGED <<reqVars, mainVars, camVars, stdinClosed, convRc, pending, opos,
                 pumpVars, srvVars, sessVars>>

Converter == Encode \/ ConverterFinish \/ ConverterExit

\* a read that asks for twice the size
Read1Double(n) == [lo |-> rpos, hi |-> rpos + Min(opos - rpos, 2 * n)]

\* ------------------------------------- BroadcastThread.run, lines 140-150
\* line 143: buf = self.converter.stdout.read1(32768).  read1 blocks until
\* bytes are there or the stream is at its end, and returns what one read of
\* the pipe gives: the unread bytes, at most 32768 of them.
Read1(n) == [lo |-> rpos, hi |-> rpos + Min(opos - rpos, n)]

PumpRead ==
  /\ pumpPc = "read"
  /\ rpos < opos \/ conv \in {"eof", "exited"}
  /\ buf' = Read1(ReadMax)
  /\ rpos' = Read1(ReadMax).hi
  /\ pumpPc' = "test"
  /\ UNCHANGED <<reqVars, mainVars, camVars, convVars, snap, idx, stdoutClosed, handed,
                 srvVars, sessVars>>

\* what broadcast iterates over: a copy of manager.websockets taken under
\* the manager's lock
Snapshot == websockets

\* lines 144-146: buf is not empty; broadcast copies the websockets
PumpBroadcast ==
  /\ pumpPc = "test"
  /\ buf.hi > buf.lo
  /\ snap' = Snapshot
  /\ idx' = 1
  /\ pumpPc' = IF Snapshot = <<>> THEN "read" ELSE "fanout"
  /\ handed' = Append(handed, buf)
  /\ UNCHANGED <<reqVars, mainVars, camVars, convVars, rpos, buf, stdoutClosed,
                 srvVars, sessVars>>

\* lines 147-148: buf is empty; leave the loop if the converter has exited
PumpPoll ==
  /\ pumpPc = "test"
  /\ buf.hi = buf.lo
  /\ pumpPc' = IF conv = "exited" THEN "close" ELSE "read"
  /\ UNCHANGED <<reqVars, mainVars, camVars, convVars, rpos, buf, snap, idx,
                 stdoutClosed, handed, srvVars, sessVars>>

\* a broadcast that iterates manager.websockets itself, not a copy
TargetsLive == websockets

\* the websockets broadcast iterates over: the copy it took
Targets == snap

\* where broadcast goes after the websocket at position i
AfterSend(i) == IF i >= Len(Targets) THEN "read" ELSE "fanout"

\* a broadcast that gives up the chunk when one send raises
OnSendErrorAbort(i) == "read"

\* what broadcast does when the send to one websocket raises: the exception
\* is swallowed and the loop goes on with the next websocket
OnSendError(i) == AfterSend(i)

\* line 146, the loop of broadcast: one websocket of the copy
PumpSend ==
  /\ pumpPc = "fanout"
  /\ idx \in 1..Len(Targets)
  /\ LET c == Targets[idx] IN
       \/ /\ sess[c] = "closed"            \* ws.terminated: skipped
          /\ pumpPc' = AfterSend(idx)
          /\ UNCHANGED <<recv, fails>>
       \/ /\ sess[c] # "closed" /\ sock[c] = "ok"
          /\ recv' = [recv EXCEPT ![c] = Append(@, ChunkMsg(buf))]
          /\ pumpPc' = AfterSend(idx)
          /\ UNCHANGED fails
       \/ /\ sess[c] # "closed" /\ sock[c] = "broken"
          /\ fails' = [fails EXCEPT ![c] = @ + 1]
          /\ pumpPc' = OnSendError(idx)
          /\ UNCHANGED recv
  /\ idx' = idx + 1
  /\ UNCHANGED <<reqVars, mainVars, camVars, convVars, rpos, buf, snap, stdoutClosed, handed,
                 srvVars, websockets, sess, sock, hdrPos, hdr, regPos, closes>>

\* line 150: finally: self.converter.stdout.close()
PumpClose ==
  /\ pumpPc = "close"
  /\ stdoutClosed' = TRUE
  /\ pumpPc' = "done"
  /\ UNCHANGED <<reqVars, mainVars, camVars, convVars, rpos, buf, snap, idx, handed,
                 srvVars, sessVars>>

Pump == PumpRead \/ PumpBroadcast \/ PumpPoll \/ PumpSend \/ PumpClose

\* ------------------------------- server thread: serve_forever, lines 85-103
\* a websocket upgrade request of client c is accepted and application()
\* hands it to WSGI_WS_APP (line 94)
Accept(c) ==
  /\ srvPc = "idle"
  /\ ~shutdownReq
  /\ sess[c] = "new"
  /\ \A d \in 1..(c - 1) : sess[d] # "new"    \* clients are numbered as they come
  /\ sess' = [sess EXCEPT ![c] = "handshake"]
  /\ cur' = c
  /\ srvPc' = "opened"
  /\ UNCHANGED <<reqVars, mainVars, camVars, convVars, pumpVars, shutdownReq,
                 websockets, sock, recv, hdrPos, hdr, regPos, fails, closes>>

\* an opened() that sends nothing
OpenedNoHeader ==
  /\ srvPc = "opened"
  /\ srvPc' = "add"
  /\ UNCHANGED <<reqVars, mainVars, camVars, convVars, pumpVars, cur, shutdownReq, sessVars>>

\* lines 102-103: StreamingWebSocket.opened sends the header.  If the send
\* raises the websocket is never registered.
Opened ==
  /\ srvPc = "opened"
  /\ \/ /\ sock[cur] = "ok"
        /\ recv' = [recv EXCEPT ![cur] = Append(@, HeaderMsg)]
        /\ hdrPos' = [hdrPos EXCEPT ![cur] = BroadcastPos]
        /\ hdr' = [hdr EXCEPT ![cur] = @ \o Pack(JSMPEG_MAGIC, dims.w, dims.h)]
        /\ srvPc' = "add"
        /\ UNCHANGED <<sess, cur>>
     \/ /\ sock[cur] = "broken"
        /\ sess' = [sess EXCEPT ![cur] = "closed"]
        /\ srvPc' = "idle"
        /\ cur' = 0
        /\ UNCHANGED <<recv, hdrPos, hdr>>
  /\ UNCHANGED <<reqVars, mainVars, camVars, convVars, pumpVars, shutdownReq,
                 websockets, sock, regPos, fails, closes>>

\* manager.add, after opened() has returned: the websocket joins
\* manager.websockets
Register ==
  /\ srvPc = "add"
  /\ websockets' = Append(websockets, cur)
  /\ sess' = [sess EXCEPT ![cur] = "open"]
  /\ regPos' = [regPos EXCEPT ![cur] = BroadcastPos]
  /\ srvPc' = "idle"
  /\ cur' = 0
  /\ UNCHANGED <<reqVars, mainVars, camVars, convVars, pumpVars, shutdownReq,
                 sock, recv, hdrPos, hdr, fails, closes>>

\* serve_forever sees the shutdown request between two requests and returns
ServeForeverExit ==
  /\ srvPc = "idle"
  /\ shutdownReq
  /\ srvPc' = "stopped"
  /\ UNCHANGED <<reqVars, mainVars, camVars, convVars, pumpVars, cur, shutdownReq, sessVars>>

Server == (\E c \in Clients : Accept(c)) \/ Opened \/ Register \/ ServeForeverExit

\* ------------------------------------------------ websocket manager thread
\* the manager finds the socket of a registered websocket dead: it removes
\* the websocket from manager.websockets and terminates it
Reap(c) ==
  /\ sess[c] = "open"
  /\ sock[c] = "broken"
  /\ websockets' = Remove(websockets, c)
  /\ sess' = [sess EXCEPT ![c] = "closed"]
  /\ closes' = [closes EXCEPT ![c] = @ + 1]
  /\ UNCHANGED <<reqVars, mainVars, camVars, convVars, pumpVars, srvVars,
                 sock, recv, hdrPos, hdr, regPos, fails>>

Manager == \E c \in Clients : Reap(c)

\* ------------------------------------------------------------ the viewers
\* socket faults so far
Faults == Cardinality({c \in Clients : sock[c] # "ok"})

\* the connection of client c fails, or the viewer goes away
SocketBreak(c) ==
  /\ sess[c] \in {"handshake", "open"}
  /\ sock[c] = "stalled" \/ Faults < MaxFaults
  /\ sock[c] # "broken"
  /\ sock' = [sock EXCEPT ![c] = "broken"]
  /\ UNCHANGED <<reqVars, mainVars, camVars, convVars, pumpVars, srvVars,
                 websockets, sess, recv, hdrPos, hdr, regPos, fails, closes>>

\* the viewer stops reading: a send to it no longer completes
SocketStall(c) ==
  /\ sess[c] = "open"
  /\ sock[c] = "ok"
  /\ Faults < MaxFaults
  /\ sock' = [sock EXCEPT ![c] = "stalled"]
  /\ UNCHANGED <<reqVars, mainVars, camVars, convVars, pumpVars, srvVars,
                 websockets, sess, recv, hdrPos, hdr, regPos, fails, closes>>

Viewers == \E c \in Clients : SocketBreak(c) \/ SocketStall(c)

\* ------------------------------------------------------------------ system
Next ==
  \/ Main
  \/ Interrupt
  \/ Write
  \/ Converter
  \/ ConverterCrash
  \/ Pump
  \/ Server
  \/ Manager
  \/ Viewers

Spec == Init /\ [][Next]_vars

\* the threads and the converter are scheduled; interrupts, crashes and the
\* viewers' failures are not bound to happen
FairSpec ==
  /\ Spec
  /\ WF_vars(Main)
  /\ WF_vars(Write)
  /\ WF_vars(Converter)
  /\ WF_vars(Pump)
  /\ WF_vars(Server)
  /\ WF_vars(Manager)

TypeOK ==
  /\ mainPc \in OuterBody \cup InnerTry \cup InnerFinally \cup OuterFinally \cup {"done"}
  /\ err \in BOOLEAN
  /\ nInt \in 0..MaxInterrupts
  /\ cam \in {"on", "rec", "stopped", "closed"}
  /\ frames \in 0..MaxFrames
  /\ conv \in {"none", "run", "eof", "exited"}
  /\ pending \in 0..MaxFrames
  /\ rpos \in 0..opos
  /\ pumpPc \in {"notstarted", "read", "test", "fanout", "close", "done"}
  /\ srvPc \in {"notstarted", "idle", "opened", "add", "stopped"}
  /\ Range(websockets) \subseteq Clients

\* ------------------------------------ requests: application(), lines 50-97
\* 'websocket'
WEBSOCKET == <<119, 101, 98, 115, 111, 99, 107, 101, 116>>

\* header values a request may carry in Upgrade; <<>> is no Upgrade header
UpgradeSamples ==
  { <<>>,
    WEBSOCKET,
    <<87, 101, 98, 83, 111, 99, 107, 101, 116>>,            \* 'WebSocket'
    <<87, 69, 66, 83, 79, 67, 75, 69, 84>>,                 \* 'WEBSOCKET'
    <<119, 101, 98, 115, 111, 99, 107, 101, 116, 115>>,     \* 'websockets'
    <<104, 50, 99>> }                                       \* 'h2c'

PathSamples == {"/", "/index.html", "/jsmpg.js", "/favicon.ico", "/index.htm", ""}

\* widths and heights a run may be configured with
DimSamples == {0, 255, 256, 480, 640, 65535}

\* str.lower() on one character of a header value
Lower(ch) == IF ch \in 65..90 THEN ch + 32 ELSE ch

\* str.lower()
LowerStr(str) == [i \in 1..Len(str) |-> Lower(str[i])]

\* a dispatcher that compares the header as it came
RouteCaseSensitive(upgrade) == IF upgrade = WEBSOCKET THEN "ws" ELSE "http"

\* line 92: environ.get('HTTP_UPGRADE', '').lower() == 'websocket'
Route(upgrade) == IF LowerStr(upgrade) = WEBSOCKET THEN "ws" ELSE "http"

\* lines 54-81: the status http_app answers for a path
HttpStatus(path) ==
  IF path = "/" THEN 301
  ELSE IF path = "/jsmpg.js" THEN 200
  ELSE IF path = "/index.html" THEN 200
  ELSE 404

\* the next client that has not connected yet
NextClient == CHOOSE c \in Clients : sess[c] = "new" /\ \A d \in 1..(c - 1) : sess[d] # "new"

\* serve_forever accepts a request
Request(upgrade, path) ==
  /\ srvPc = "idle"
  /\ ~shutdownReq
  /\ req.state = "none"
  /\ Route(upgrade) = "ws" => \E c \in Clients : sess[c] = "new"
  /\ req' = [state |-> "accepted", upgrade |-> upgrade, path |-> path]
  /\ resp' = NoResp
  /\ UNCHANGED <<dims, mainVars, camVars, convVars, pumpVars, srvVars, sessVars>>

\* lines 85-97: application() hands the request to WSGI_WS_APP, which begins
\* a websocket, or to http_app, which answers it
Application ==
  /\ srvPc = "idle"
  /\ req.state = "accepted"
  /\ req' = NoReq
  /\ IF Route(req.upgrade) = "ws"
       THEN /\ sess' = [sess EXCEPT ![NextClient] = "handshake"]
            /\ cur' = NextClient
            /\ srvPc' = "opened"
            /\ resp' = [handler |-> "ws", status |-> 0,
                        upgrade |-> req.upgrade, path |-> req.path]
       ELSE /\ resp' = [handler |-> "http", status |-> HttpStatus(req.path),
                        upgrade |-> req.upgrade, path |-> req.path]
            /\ UNCHANGED <<sess, cur, srvPc>>
  /\ UNCHANGED <<dims, mainVars, camVars, convVars, pumpVars, shutdownReq,
                 websockets, sock, recv, hdrPos, hdr, regPos, fails, closes>>

\* the pipeline is running and the server thread waits for requests; the
\* run is configured with some width and height
ReqInit ==
  /\ mainPc = "sleep" /\ err = FALSE /\ nInt = 0 /\ intAt = "none" /\ done = {}
  /\ cam = "rec" /\ frames = 0 /\ writeAfterClose = FALSE
  /\ stdinClosed = FALSE /\ conv = "run" /\ convRc = 0 /\ pending = 0 /\ opos = 0
  /\ rpos = 0 /\ pumpPc = "read" /\ buf = NoBuf /\ snap = <<>> /\ idx = 1
  /\ stdoutClosed = FALSE /\ handed = <<>>
  /\ srvPc = "idle" /\ cur = 0 /\ shutdownReq = FALSE
  /\ websockets = <<>>
  /\ sess = [c \in Clients |-> "new"]
  /\ sock = [c \in Clients |-> "ok"]
  /\ recv = [c \in Clients |-> <<>>]
  /\ hdrPos = [c \in Clients |-> 0]
  /\ regPos = [c \in Clients |-> 0]
  /\ fails = [c \in Clients |-> 0]
  /\ closes = [c \in Clients |-> 0]
  /\ hdr = [c \in Clients |-> <<>>]
  /\ dims \in [w : DimSamples, h : DimSamples]
  /\ req = NoReq
  /\ resp = NoResp

ReqNext ==
  \/ \E u \in UpgradeSamples, p \in PathSamples : Request(u, p)
  \/ Application
  \/ Opened
  \/ Register

\* the server thread alone, request by request
RequestSpec == ReqInit /\ [][ReqNext]_vars


\* ================================================================ claims
\* the chunk messages client c has received, after its first message
Chunks(c) == SubSeq(recv[c], 2, Len(recv[c]))

\* c is registered and its connection has not failed
Healthy(c) == sess[c] = "open" /\ sock[c] # "broken"

\* the broadcast in progress has c in its copy and has not reached it yet
Awaiting(c) == /\ pumpPc = "fanout"
               /\ \E i \in idx..Len(snap) : snap[i] = c

\* the converter output position up to which c is due its bytes
ExpectedEnd(c) == IF Awaiting(c) THEN buf.lo ELSE BroadcastPos

\* the converter output position up to which c has received bytes
DeliveredEnd(c) == IF Len(recv[c]) > 1 THEN recv[c][Len(recv[c])].hi ELSE regPos[c]

\* C1: whatever a session has received starts with exactly one header: its
\* first message is the header, no later message is a header, and a
\* registered session has received its header
C1_HeaderFirst ==
  \A c \in Clients :
    /\ recv[c] # <<>> => recv[c][1] = HeaderMsg
    /\ \A k \in 2..Len(recv[c]) : recv[c][k].kind = "chunk"
    /\ (sess[c] = "open" \/ c \in Range(snap)) => recv[c] # <<>>

\* a session registered while a broadcast was going on has its header and
\* then a chunk
C1_Witness ==
  \E c \in Clients : /\ Len(recv[c]) >= 2
                     /\ regPos[c] > 0
                     /\ recv[c][1] = HeaderMsg

\* C2: the chunks a registered session without a failure has received are
\* the converter output from its registration up to the last broadcast, byte
\* for byte and in the order read: no gap, no repetition, no reordering
C2_InOrderUnmodified ==
  \A c \in Clients :
    Healthy(c) =>
      /\ \A k \in 1..Len(Chunks(c)) :
           /\ Chunks(c)[k].kind = "chunk"
           /\ Chunks(c)[k].lo < Chunks(c)[k].hi
           /\ Chunks(c)[k].lo = IF k = 1 THEN regPos[c] ELSE Chunks(c)[k - 1].hi
      /\ DeliveredEnd(c) = ExpectedEnd(c)

\* two sessions registered before the first broadcast have both received
\* two chunks
C2_Witness ==
  /\ NumClients >= 2
  /\ \A c \in 1..2 : Healthy(c) /\ regPos[c] = 0 /\ Len(Chunks(c)) >= 2

\* C3: a session never receives a chunk whose broadcast began (took its
\* copy of the websockets) before the session's header was sent
C3_NoReplay ==
  \A c \in Clients :
    \A k \in 2..Len(recv[c]) : recv[c][k].lo >= hdrPos[c]

\* a session registered while a chunk is being delivered to another session:
\* the chunk in flight is not for it
C3_Witness ==
  /\ pumpPc = "fanout"
  /\ \E c \in Clients : /\ sess[c] = "open"
                        /\ c \notin Range(snap)
                        /\ hdrPos[c] > buf.lo
                        /\ recv[c] = <<HeaderMsg>>

\* a later chunk has reached a session that registered during an earlier
\* broadcast
C3_WitnessLater ==
  \E c \in Clients : hdrPos[c] > 0 /\ Len(recv[c]) >= 2

\* C4: when the pump has left its loop at the end of the converter output
\* and no interrupt was delivered, main goes through its shutdown sequence
\* and finishes
C4_EndOfStreamStops ==
  (pumpPc = "done" /\ nInt = 0 /\ mainPc = "sleep") ~> (mainPc = "done")

\* C5: once a delivery to some session has failed, every registered session
\* without a failure still has all the bytes it is due, the chunk of the
\* failed delivery and the later ones, and the pump has left its loop only
\* at the end of the converter output
C5_FailureIsLocal ==
  (\E d \in Clients : fails[d] > 0) =>
    /\ \A c \in Clients : Healthy(c) => DeliveredEnd(c) = ExpectedEnd(c)
    /\ pumpPc \in {"close", "done"} => conv = "exited" /\ rpos = opos

\* the delivery to the first session failed and the second session, later
\* in the same broadcasts, has received that chunk and the next one
C5_Witness ==
  /\ NumClients >= 2
  /\ fails[1] > 0
  /\ recv[1] = <<HeaderMsg>>
  /\ Healthy(2) /\ regPos[2] = 0 /\ regPos[1] = 0
  /\ Len(Chunks(2)) >= 2

\* C6: a session whose delivery failed is out of the active set after that
\* one failed attempt, and no further delivery to it is attempted
C6_RemovedAfterOneFailure ==
  \A c \in Clients :
    /\ fails[c] <= 1
    /\ fails[c] = 1 => c \notin Range(websockets)

\* C7: a broadcast always comes to its end, and the pump goes on to its
\* next read, whatever a viewer does
C7_PumpNeverBlocks ==
  (pumpPc = "fanout") ~> (pumpPc # "fanout")

\* main has begun to release the camera (line 222 has run)
ReleaseBegun == mainPc = "cam_close" \/ "release" \in done

\* C8: the steps of the shutdown sequence run in their order, each after
\* the one before it has completed: stop the frame source, close the
\* converter input, wait for the pump, shut down the server, release the
\* camera
C8_ShutdownOrder ==
  /\ "close_input" \in done => "stop_source" \in done
  /\ "pump_wait" \in done => "close_input" \in done
  /\ "hub_shutdown" \in done => "pump_wait" \in done
  /\ ("stop_source" \in done /\ ReleaseBegun) => "hub_shutdown" \in done

\* C9: BroadcastOutput.write never runs after flush has closed
\* converter.stdin
C9_NoWriteAfterClose == ~writeAfterClose

\* flush has closed converter.stdin although the camera had frames left to
\* give and the converter was still taking them
C9_Witness ==
  /\ stdinClosed
  /\ frames < MaxFrames
  /\ conv = "run"

\* C10: when the shutdown sequence has completed, no session is active any
\* more, every session that was registered has been closed exactly once, and
\* no registration is accepted
C10_StoppedIsEmpty ==
  (mainPc = "done" /\ "hub_shutdown" \in done) =>
    /\ websockets = <<>>
    /\ \A c \in Clients : sess[c] # "open"
    /\ \A c \in Clients : Len(recv[c]) > 0 /\ sess[c] = "closed" => closes[c] = 1
    /\ \A c \in Clients : ~ENABLED Accept(c)

\* the steps of the shutdown sequence
AllSteps == {"stop_source", "close_input", "pump_wait", "hub_shutdown", "release"}

\* C11: when the first interrupt found main in its sleep loop and the
\* converter ended without an error, main finishes with every step of the
\* shutdown sequence done and no exception, however many interrupts follow
C11_SecondInterruptNoOp ==
  (mainPc = "done" /\ intAt = "sleep" /\ convRc = 0) =>
    (done = AllSteps /\ ~err)

\* C12: when a step of the startup has failed and main has finished, the
\* camera is stopped and closed and a converter that was spawned has had its
\* input closed and has exited
C12_StartupFailureReleases ==
  (mainPc = "done" /\ err /\ nInt = 0 /\ pumpPc = "notstarted") =>
    /\ cam = "closed"
    /\ conv # "none" => stdinClosed /\ conv = "exited"

RecordingStarted == cam = "rec" \/ "stop_source" \in done \/ cam \in {"stopped", "closed"}

C14_ExitStatusReported ==
  (mainPc = "join_pump" /\ intAt = "sleep") =>
    /\ stdinClosed
    /\ conv = "exited"
    /\ err <=> (convRc # 0)

\* the sample header values that are 'websocket' but for the case of letters
WebsocketSpellings ==
  { <<119, 101, 98, 115, 111, 99, 107, 101, 116>>,
    <<87, 101, 98, 83, 111, 99, 107, 101, 116>>,
    <<87, 69, 66, 83, 79, 67, 75, 69, 84>> }

\* the paths http_app knows
KnownPaths == {"/", "/index.html", "/jsmpg.js"}

\* C15: a request whose Upgrade header is 'websocket' in any case of letters
\* goes to the websocket handler and every other request to http_app, which
\* answers 404 exactly for the paths it does not know; a request that goes
\* to http_app registers nothing
C15_Routing ==
  /\ [](resp.handler # "none" =>
          /\ resp.handler = "ws" <=> resp.upgrade \in WebsocketSpellings
          /\ resp.handler = "http" => (resp.status = 404 <=> resp.path \notin KnownPaths))
  /\ [][(req.state = "accepted" /\ req.upgrade \notin WebsocketSpellings /\ req' = NoReq)
          => UNCHANGED <<websockets, sess, cur, srvPc, hdr, recv>>]_vars

\* a session was registered through the websocket handler and, after it, a
\* request with Upgrade 'h2c' for an unknown path got 404 from http_app
C15_Witness ==
  /\ resp.handler = "http" /\ resp.status = 404 /\ resp.upgrade = <<104, 50, 99>>
  /\ \E c \in Clients : sess[c] = "open"

\* the two bytes at i and i+1 of s, read as a big-endian number
Unpack2(s, i) == s[i] * 256 + s[i + 1]

\* C16: what opened() has sent to a session is 8 bytes, 'jsmp', then the
\* width and then the height as 2-byte big-endian numbers, the same for every
\* session
C16_HeaderLayout ==
  \A c \in Clients :
    hdr[c] # <<>> =>
      /\ Len(hdr[c]) = 8
      /\ \A i \in 1..8 : hdr[c][i] \in 0..255
      /\ SubSeq(hdr[c], 1, 4) = <<106, 115, 109, 112>>
      /\ Unpack2(hdr[c], 5) = dims.w
      /\ Unpack2(hdr[c], 7) = dims.h
      /\ \A d \in Clients : hdr[d] # <<>> => hdr[d] = hdr[c]

\* two sessions have their header in a run whose width and height differ in
\* both bytes
C16_Witness ==
  /\ dims.w = 256 /\ dims.h = 65535
  /\ Cardinality({c \in Clients : hdr[c] # <<>>}) >= 2

\* the pump has left its loop
PumpExited == pumpPc \in {"close", "done"}

\* C17: the pump leaves its loop only on an empty read with the converter
\* exited; once the converter input is closed, the converter has exited and
\* its output is read to the end, the pump thread comes to its end; and the
\* converter output is closed when the thread ends, with no read after it
C17_PumpTermination ==
  /\ [](PumpExited => buf.hi = buf.lo /\ conv = "exited" /\ rpos = opos)
  /\ [](stdoutClosed <=> pumpPc = "done")
  /\ (pumpPc # "notstarted" /\ stdinClosed /\ conv = "exited" /\ rpos = opos)
       ~> (pumpPc = "done")

\* the converter output position up to which bufs were passed to broadcast
HandedEnd == IF handed = <<>> THEN 0 ELSE handed[Len(handed)].hi

\* C18: the bufs passed to broadcast are not empty, hold at most 32768 bytes
\* each and, one after the other, are the converter output from its first
\* byte up to the last broadcast, without gap or repetition; together with
\* the buf just read and not yet passed on they are all the pump has read
C18_StreamPreserved ==
  /\ \A k \in 1..Len(handed) :
       /\ handed[k].lo < handed[k].hi
       /\ handed[k].hi - handed[k].lo <= 32768
       /\ handed[k].lo = IF k = 1 THEN 0 ELSE handed[k - 1].hi
  /\ HandedEnd = BroadcastPos
  /\ pumpPc = "test" => buf.lo = HandedEnd /\ buf.hi = rpos
  /\ pumpPc # "test" => HandedEnd = rpos

\* the pump has passed on a full read of 32768 bytes and then the rest of
\* the converter output
C18_Witness ==
  /\ Len(handed) >= 2
  /\ handed[1].hi - handed[1].lo = 32768
  /\ HandedEnd = opos
  /\ pumpPc = "done"

\* C19: when one interrupt was delivered inside the try block of lines
\* 202-209, with the recording started and the converter ending without an
\* error, and main has finished, then it has finished without an exception,
\* every step of the shutdown sequence is done, the pump thread and the
\* server thread have ended and the camera is closed
C19_ShutdownCompletes ==
  (mainPc = "done" /\ intAt \in InnerTry /\ nInt = 1 /\ convRc = 0) =>
    /\ ~err
    /\ done = AllSteps
    /\ pumpPc = "done"
    /\ srvPc = "stopped"
    /\ cam = "closed"
====
